---- MODULE Spec2Model ----
(***************************************************************************)
(* Model of the pfasPBK repository:                                        *)
(*   - scripts/compile_model.py : the module-level loop that compiles,     *)
(*     annotates and validates every Antimony model of ./model/            *)
(*   - tests/exposure_scenario_tests.py : test_daily_oral_bolus (the daily *)
(*     dosing event) and test_parametrisation (the parameter-file check)   *)
(* The external libraries (tellurium, libsbml, sbmlpbkutils, roadrunner,   *)
(* pandas) are modelled by what their calls can do to the caller: return,  *)
(* write a file, or raise.                                                 *)
(***************************************************************************)
EXTENDS FiniteSets, Integers, Sequences, TLC

VARIABLES
  \* ---- scripts/compile_model.py
  run,          \* number of the current execution of the script (a process)
  listing,      \* what os.listdir(model_path) returned
  idx,          \* position of the for loop in listing
  pc,           \* position of the script inside the loop body
  document,     \* the in-memory libsbml document
  sbml,         \* on disk: {name}.sbml of every model
  csv,          \* on disk: {name}.annotations.csv of every model
  annlog,       \* on disk: {name}.annotations.log of every model
  vallog,       \* on disk: {name}.validation.log of every model
  openHandles,  \* the logging.FileHandler streams open in this process
  events,       \* history: the external calls made by this process, in order
  raised,       \* history: the (model, stage) whose call raised in this process
  \* ---- tests/exposure_scenario_tests.py : test_parametrisation
  tpc, params, files, fidx, model_params, df, instance_ids, iidx, ridx,
  examined, reported,
  \* ---- tests/exposure_scenario_tests.py : test_daily_oral_bolus
  dpc, days_of_exposure, num_days, points, target, event, sample, BW, AGut,
  triggered, lastDose

pipeVars == <<run, listing, idx, pc, document, sbml, csv, annlog, vallog,
              openHandles, events, raised>>
paramVars == <<tpc, params, files, fidx, model_params, df, instance_ids, iidx,
               ridx, examined, reported>>
doseVars == <<dpc, days_of_exposure, num_days, points, target, event, sample,
              BW, AGut, triggered, lastDose>>
vars == <<pipeVars, paramVars, doseVars>>

-----------------------------------------------------------------------------
\* Bound: how many times the script is run over the same directory.
MaxRuns == 3

-----------------------------------------------------------------------------
(* scripts/compile_model.py *)

\* The Antimony sources of ./model/, by stem.
Models == {"PBK_PFAS", "PBK_second"}

\* The entries of ./model/ : one .ant file per model and one file that is no
\* Antimony source.
Entries ==
  {[stem |-> m, ext |-> "ant"] : m \in Models} \cup {[stem |-> "README", ext |-> "md"]}

\* os.listdir returns the entries in arbitrary order.
Listings ==
  {l \in [1..Cardinality(Entries) -> Entries] :
     \A i, j \in 1..Cardinality(Entries) : i # j => l[i] # l[j]}

NoDocument == [model |-> "", state |-> "none"]
NoFile == [kind |-> "none", run |-> 0]

\* The model whose source file the loop is at.
cur == listing[idx].stem

Ev(op, m) == [op |-> op, model |-> m]

InitMemory ==
  /\ idx = 1
  /\ pc = "for"
  /\ document = NoDocument
  /\ openHandles = {}
  /\ events = << >>
  /\ raised = {}

InitPipelineVars ==
  /\ run = 1
  /\ listing \in Listings
  /\ InitMemory
  /\ sbml = [m \in Models |-> NoFile]
  /\ csv \in [Models -> {NoFile, [kind |-> "human", run |-> 0]}]
  /\ annlog = [m \in Models |-> "none"]
  /\ vallog = [m \in Models |-> "none"]

\* for file in os.listdir(model_path): a file that does not end with .ant
SkipFile ==
  /\ pc = "for" /\ idx <= Len(listing) /\ listing[idx].ext # "ant"
  /\ idx' = idx + 1
  /\ UNCHANGED <<run, listing, pc, document, sbml, csv, annlog, vallog,
                 openHandles, events, raised,
                 paramVars, doseVars>>

\* for file in os.listdir(model_path): a file that ends with .ant
EnterModel ==
  /\ pc = "for" /\ idx <= Len(listing) /\ listing[idx].ext = "ant"
  /\ pc' = "loada"
  /\ UNCHANGED <<run, listing, idx, document, sbml, csv, annlog, vallog,
                 openHandles, events, raised,
                 paramVars, doseVars>>

\* the loop is exhausted: the script ends
ExitLoop ==
  /\ pc = "for" /\ idx > Len(listing)
  /\ pc' = "done"
  /\ UNCHANGED <<run, listing, idx, document, sbml, csv, annlog, vallog,
                 openHandles, events, raised,
                 paramVars, doseVars>>

\* r = te.loada(ant_file): returns, or raises on a malformed source; nothing
\* catches the exception, so the process ends with a traceback.
Loada ==
  /\ pc = "loada"
  /\ events' = Append(events, Ev("loada", cur))
  /\ \E ok \in BOOLEAN :
       IF ok THEN pc' = "export" /\ UNCHANGED raised
             ELSE pc' = "crashed" /\ raised' = raised \cup {<<cur, "compile">>}
  /\ UNCHANGED <<run, listing, idx, document, sbml, csv, annlog, vallog,
                 openHandles,
                 paramVars, doseVars>>

\* r.exportToSBML(sbml_file): overwrites {name}.sbml
ExportToSBML ==
  /\ pc = "export"
  /\ sbml' = [sbml EXCEPT ![cur] = [kind |-> "exported", run |-> run]]
  /\ events' = Append(events, Ev("export", cur))
  /\ pc' = "read"
  /\ UNCHANGED <<run, listing, idx, document, csv, annlog, vallog,
                 openHandles, raised,
                 paramVars, doseVars>>

\* document = ls.readSBML(sbml_file)
ReadSBML ==
  /\ pc = "read"
  /\ document' = [model |-> cur, state |-> sbml[cur].kind]
  /\ events' = Append(events, Ev("read", cur))
  /\ pc' = "exists"
  /\ UNCHANGED <<run, listing, idx, sbml, csv, annlog, vallog, openHandles,
                 raised,
                 paramVars, doseVars>>

\* Mutant of CheckAnnotationsFile: the existence guard is missing, the
\* template is generated on every run.
CheckAnnotationsFileUnguarded ==
  /\ pc = "exists"
  /\ pc' = "generate"
  /\ UNCHANGED <<run, listing, idx, document, sbml, csv, annlog, vallog,
                 openHandles, events, raised, paramVars, doseVars>>

\* if not os.path.exists(annotations_file):
CheckAnnotationsFile ==
  /\ pc = "exists"
  /\ pc' = IF csv[cur].kind = "none" THEN "generate" ELSE "mklog_a"
  /\ UNCHANGED <<run, listing, idx, document, sbml, csv, annlog, vallog,
                 openHandles, events, raised,
                 paramVars, doseVars>>

\* annotations = generate(model); annotations.to_csv(annotations_file)
GenerateTemplate ==
  /\ pc = "generate"
  /\ csv' = [csv EXCEPT ![cur] = [kind |-> "template", run |-> run]]
  /\ events' = Append(events, Ev("generate", cur))
  /\ pc' = "mklog_a"
  /\ UNCHANGED <<run, listing, idx, document, sbml, annlog, vallog,
                 openHandles, raised,
                 paramVars, doseVars>>

\* logger = create_file_logger(annotations_log_file): FileHandler(logfile,
\* 'w+') truncates the file and keeps it open; nothing closes the handler.
CreateAnnotationLogger ==
  /\ pc = "mklog_a"
  /\ openHandles' = openHandles \cup {<<cur, "annotations">>}
  /\ annlog' = [annlog EXCEPT ![cur] = "empty"]
  /\ pc' = "annotate"
  /\ UNCHANGED <<run, listing, idx, document, sbml, csv, vallog, events,
                 raised,
                 paramVars, doseVars>>

\* Mutant of Annotate: the annotator's exception is caught and the script
\* goes on to write and validate the document.
AnnotateContained ==
  /\ pc = "annotate"
  /\ events' = Append(events, Ev("annotate", cur))
  /\ \E ok \in BOOLEAN, logged \in {"info", "error"} :
       IF ok
       THEN /\ document' = [document EXCEPT !.state = "annotated"]
            /\ annlog' = [annlog EXCEPT ![cur] = logged]
            /\ UNCHANGED raised
       ELSE /\ document' = [document EXCEPT !.state = "partial"]
            /\ annlog' = [annlog EXCEPT ![cur] = "error"]
            /\ raised' = raised \cup {<<cur, "annotate">>}
  /\ pc' = "write"
  /\ UNCHANGED <<run, listing, idx, sbml, csv, vallog, openHandles,
                 paramVars, doseVars>>

\* annotator.annotate(document, annotations_file, citation_file, logger):
\* mutates the document and logs; it returns (having logged progress or
\* errors), or raises (having logged an error or nothing). The exception is
\* not caught.
Annotate ==
  /\ pc = "annotate"
  /\ events' = Append(events, Ev("annotate", cur))
  /\ \E ok \in BOOLEAN, logged \in {"info", "error"} :
       IF ok
       THEN /\ document' = [document EXCEPT !.state = "annotated"]
            /\ annlog' = [annlog EXCEPT ![cur] = logged]
            /\ pc' = "write"
            /\ UNCHANGED raised
       ELSE /\ document' = [document EXCEPT !.state = "partial"]
            /\ annlog' = [annlog EXCEPT
                            ![cur] = IF logged = "error" THEN "error" ELSE "empty"]
            /\ pc' = "crashed"
            /\ raised' = raised \cup {<<cur, "annotate">>}
  /\ UNCHANGED <<run, listing, idx, sbml, csv, vallog, openHandles,
                 paramVars, doseVars>>

\* Mutant of WriteSBML: the annotated document is not written before the
\* validator is called.
WriteSBMLSkipped ==
  /\ pc = "write"
  /\ pc' = "mklog_v"
  /\ UNCHANGED <<run, listing, idx, document, sbml, csv, annlog, vallog,
                 openHandles, events, raised, paramVars, doseVars>>

\* ls.writeSBML(document, str(annotated_sbml_file)): the same path as sbml_file
WriteSBML ==
  /\ pc = "write"
  /\ sbml' = [sbml EXCEPT ![cur] = [kind |-> document.state, run |-> run]]
  /\ events' = Append(events, Ev("write", cur))
  /\ pc' = "mklog_v"
  /\ UNCHANGED <<run, listing, idx, document, csv, annlog, vallog,
                 openHandles, raised,
                 paramVars, doseVars>>

\* logger = create_file_logger(validation_log_file)
CreateValidationLogger ==
  /\ pc = "mklog_v"
  /\ openHandles' = openHandles \cup {<<cur, "validation">>}
  /\ vallog' = [vallog EXCEPT ![cur] = "empty"]
  /\ pc' = "validate"
  /\ UNCHANGED <<run, listing, idx, document, sbml, csv, annlog, events,
                 raised,
                 paramVars, doseVars>>

\* Mutant of Validate: the validator's exception is caught per model and the
\* loop takes the next file.
ValidateContained ==
  /\ pc = "validate"
  /\ \E ok \in BOOLEAN :
       IF ok
       THEN /\ vallog' = [vallog EXCEPT ![cur] = "findings"]
            /\ events' = events \o <<Ev("validate", cur), Ev("validated", cur)>>
            /\ UNCHANGED raised
       ELSE /\ events' = Append(events, Ev("validate", cur))
            /\ raised' = raised \cup {<<cur, "validate">>}
            /\ UNCHANGED vallog
  /\ pc' = "for"
  /\ idx' = idx + 1
  /\ UNCHANGED <<run, listing, document, sbml, csv, annlog, openHandles,
                 paramVars, doseVars>>

\* validator.validate(annotated_sbml_file, logger): logs its findings and
\* returns, or raises; the exception is not caught. After it the loop body
\* ends and the for loop takes the next file.
Validate ==
  /\ pc = "validate"
  /\ \E ok \in BOOLEAN :
       IF ok
       THEN /\ vallog' = [vallog EXCEPT ![cur] = "findings"]
            /\ events' = events \o <<Ev("validate", cur), Ev("validated", cur)>>
            /\ pc' = "for"
            /\ idx' = idx + 1
            /\ UNCHANGED raised
       ELSE /\ events' = Append(events, Ev("validate", cur))
            /\ pc' = "crashed"
            /\ raised' = raised \cup {<<cur, "validate">>}
            /\ UNCHANGED <<vallog, idx>>
  /\ UNCHANGED <<run, listing, document, sbml, csv, annlog, openHandles,
                 paramVars, doseVars>>

\* python scripts/compile_model.py is run again: a new process, with the files
\* the previous one left on disk. The handlers of the old process are gone
\* with it.
Rerun ==
  /\ pc \in {"done", "crashed"}
  /\ run < MaxRuns
  /\ run' = run + 1
  /\ idx' = 1
  /\ pc' = "for"
  /\ document' = NoDocument
  /\ openHandles' = {}
  /\ events' = << >>
  /\ raised' = {}
  /\ UNCHANGED <<listing, sbml, csv, annlog, vallog, paramVars, doseVars>>

NextPipeline ==
  \/ SkipFile \/ EnterModel \/ ExitLoop \/ Loada \/ ExportToSBML
  \/ ReadSBML \/ CheckAnnotationsFile \/ GenerateTemplate
  \/ CreateAnnotationLogger \/ Annotate \/ WriteSBML
  \/ CreateValidationLogger \/ Validate \/ Rerun

-----------------------------------------------------------------------------
(* tests/exposure_scenario_tests.py : test_parametrisation *)

\* Bound: the rows of the parameter files, all files together.
MaxRows == 3

FileIds == {"f1", "f2"}

\* glob.iglob('parametrisations/*.csv')
fileOrder == <<"f1", "f2">>

InstanceIds == {"A", "B"}

Whitespace == {" ", "\t"}

\* The ids of the parameters the SBML model declares.
ParamIds == {<<"B", "W">>, <<"k">>}

\* The names a row's Parameter column may hold: BW padded with blanks, k, and
\* a name the model does not declare.
RowNames == {<<" ", "B", "W", " ">>, <<"k">>, <<"X">>}

\* The constant attribute of an SBML parameter: absent, "true" or "false".
ConstantAttr == {"unset", "true", "false"}

\* param.isSetConstant(): whether the attribute is present, whatever its value
isSetConstant(attr) == attr # "unset"

\* model_params: the ids, in document order, of the parameters that pass the
\* filter of lines 96-99.
RECURSIVE CollectParams(_, _)
CollectParams(ids, p) ==
  IF ids = << >> THEN << >>
  ELSE (IF isSetConstant(p[Head(ids)]) THEN <<Head(ids)>> ELSE << >>)
       \o CollectParams(Tail(ids), p)

paramOrder == << <<"B", "W">>, <<"k">> >>

RECURSIVE LStrip(_)
LStrip(s) ==
  IF s # << >> /\ Head(s) \in Whitespace THEN LStrip(Tail(s)) ELSE s

RECURSIVE RStrip(_)
RStrip(s) ==
  IF s # << >> /\ s[Len(s)] \in Whitespace
  THEN RStrip(SubSeq(s, 1, Len(s) - 1)) ELSE s

\* str.strip()
Strip(s) == RStrip(LStrip(s))

\* x in list
InList(x, l) == \E i \in 1..Len(l) : l[i] = x

\* Series.unique(): the distinct values in order of first appearance
RECURSIVE Unique(_)
Unique(s) ==
  IF s = << >> THEN << >>
  ELSE LET u == Unique(SubSeq(s, 1, Len(s) - 1))
       IN IF InList(s[Len(s)], u) THEN u ELSE Append(u, s[Len(s)])

\* df.loc[df['idModelInstance'] == instance_id]
FilterInstance(d, inst) ==
  LET keep(r) == r.idModelInstance = inst IN SelectSeq(d, keep)

\* pd.read_csv(filename): the rows of the file, each with its index
ReadCsv(f) ==
  [i \in 1..Len(files[f]) |->
     [file |-> f, index |-> i,
      idModelInstance |-> files[f][i].idModelInstance,
      Parameter |-> files[f][i].Parameter]]

Column(d) == [i \in 1..Len(d) |-> d[i].idModelInstance]

InputRows == [file : FileIds, idModelInstance : InstanceIds, Parameter : RowNames]

InputTables == UNION {[1..n -> InputRows] : n \in 0..MaxRows}

FileOf(t, f) ==
  LET mine(r) == r.file = f
      rows == SelectSeq(t, mine)
  IN [i \in 1..Len(rows) |->
        [idModelInstance |-> rows[i].idModelInstance,
         Parameter |-> rows[i].Parameter]]

InitParamVars ==
  /\ tpc = "glob"
  /\ params \in [ParamIds -> ConstantAttr]
  /\ params[<<"B", "W">>] = "true"
  /\ \E t \in InputTables : files = [f \in FileIds |-> FileOf(t, f)]
  /\ fidx = 1
  /\ model_params = << >>
  /\ df = << >>
  /\ instance_ids = << >>
  /\ iidx = 1
  /\ ridx = 1
  /\ examined = << >>
  /\ reported = {}

\* for filename in glob.iglob(...): the next file. The model's parameters are
\* collected, the file is read and its instance ids are taken.
NextFile ==
  /\ tpc = "glob" /\ fidx <= Len(fileOrder)
  /\ model_params' = CollectParams(paramOrder, params)
  /\ df' = ReadCsv(fileOrder[fidx])
  /\ instance_ids' = Unique(Column(ReadCsv(fileOrder[fidx])))
  /\ iidx' = 1
  /\ tpc' = "instances"
  /\ UNCHANGED <<params, files, fidx, ridx, examined, reported, pipeVars, doseVars>>

\* the files are exhausted: the test method returns and the test passes
EndFiles ==
  /\ tpc = "glob" /\ fidx > Len(fileOrder)
  /\ tpc' = "passed"
  /\ UNCHANGED <<params, files, fidx, model_params, df, instance_ids, iidx,
                 ridx, examined, reported, pipeVars, doseVars>>

\* for instance_id in instance_ids: df = df.loc[...] rebinds df, the frame the
\* next iteration filters again.
NextInstance ==
  /\ tpc = "instances" /\ iidx <= Len(instance_ids)
  /\ df' = FilterInstance(df, instance_ids[iidx])
  /\ ridx' = 1
  /\ tpc' = "rows"
  /\ UNCHANGED <<params, files, fidx, model_params, instance_ids, iidx,
                 examined, reported, pipeVars, doseVars>>

\* the instances of the file are exhausted
EndInstances ==
  /\ tpc = "instances" /\ iidx > Len(instance_ids)
  /\ fidx' = fidx + 1
  /\ tpc' = "glob"
  /\ UNCHANGED <<params, files, model_params, df, instance_ids, iidx, ridx,
                 examined, reported, pipeVars, doseVars>>

\* Mutant of CheckRow: a failing row is recorded and the loop goes on to the
\* next row.
CheckRowCollecting ==
  /\ tpc = "rows" /\ ridx <= Len(df)
  /\ examined' = Append(examined, df[ridx])
  /\ reported' = IF InList(Strip(df[ridx].Parameter), model_params)
                 THEN reported ELSE reported \cup {df[ridx]}
  /\ ridx' = ridx + 1
  /\ UNCHANGED <<tpc, params, files, fidx, model_params, df, instance_ids,
                 iidx, pipeVars, doseVars>>

\* for index, row in df.iterrows(): self.assertIn(row['Parameter'].strip(),
\* model_params, msg). A failing assertIn raises AssertionError out of the
\* test method: the test fails with that one message.
CheckRow ==
  /\ tpc = "rows" /\ ridx <= Len(df)
  /\ examined' = Append(examined, df[ridx])
  /\ IF InList(Strip(df[ridx].Parameter), model_params)
     THEN ridx' = ridx + 1 /\ UNCHANGED <<tpc, reported>>
     ELSE tpc' = "failed" /\ reported' = reported \cup {df[ridx]} /\ UNCHANGED ridx
  /\ UNCHANGED <<params, files, fidx, model_params, df, instance_ids, iidx,
                 pipeVars, doseVars>>

\* the rows of df are exhausted
EndRows ==
  /\ tpc = "rows" /\ ridx > Len(df)
  /\ iidx' = iidx + 1
  /\ tpc' = "instances"
  /\ UNCHANGED <<params, files, fidx, model_params, df, instance_ids, ridx,
                 examined, reported, pipeVars, doseVars>>

NextParam ==
  \/ NextFile \/ EndFiles \/ NextInstance \/ EndInstances \/ CheckRow \/ EndRows

-----------------------------------------------------------------------------
(* tests/exposure_scenario_tests.py : test_daily_oral_bolus *)

\* Bound: the largest exposure duration, in days.
MaxDays == 12

evaluation_frequency == 24
daily_intake == 1

\* The values the covariate BW may take during a simulation.
BWValues == {1, 2}

NoEvent == [id |-> "none"]
NoDose == [sample |-> -1, added |-> 0, bwAtTrigger |-> 0]

\* int(days_of_exposure / 10): true division, truncated toward zero
IntDiv10(d) == IF d >= 0 THEN d \div 10 ELSE -((-d) \div 10)

\* The time of sample i of simulate(0, num_days, points): the points are
\* evenly spaced, evaluation_frequency to the day. A time is a fraction of days.
SampleTime(i) == [num |-> i, den |-> evaluation_frequency]

\* Mutant of TriggerPredicate: the exposure bound is inclusive.
TriggerPredicateInclusive(t, bound) ==
  /\ t.num % t.den = 0
  /\ t.num <= bound * t.den

\* "time % 1 == 0 && time < {days_of_exposure}"
TriggerPredicate(t, bound) ==
  /\ t.num % t.den = 0
  /\ t.num < bound * t.den

InitDoseVars ==
  /\ dpc = "scenario"
  /\ days_of_exposure \in 0..MaxDays
  /\ num_days = 0
  /\ points = 0
  /\ target \in [initAmount : {0}, constant : BOOLEAN, boundary : BOOLEAN]
  /\ event = NoEvent
  /\ sample = 0
  /\ BW \in BWValues
  /\ AGut = 0
  /\ triggered = {}
  /\ lastDose = NoDose

\* days_after_exposure = int(days_of_exposure / 10)
\* num_days = days_of_exposure + days_after_exposure
Scenario ==
  /\ dpc = "scenario"
  /\ num_days' = days_of_exposure + IntDiv10(days_of_exposure)
  /\ dpc' = "load"
  /\ UNCHANGED <<days_of_exposure, points, target, event, sample, BW, AGut,
                 triggered, lastDose, pipeVars, paramVars>>

\* rr.RoadRunner(...); setInitAmount(input_id, 0); setConstant(input_id,
\* False); setBoundary(input_id, False)
LoadModel ==
  /\ dpc = "load"
  /\ target' = [initAmount |-> 0, constant |-> FALSE, boundary |-> FALSE]
  /\ AGut' = 0
  /\ dpc' = "parametrise"
  /\ UNCHANGED <<days_of_exposure, num_days, points, event, sample, BW,
                 triggered, lastDose, pipeVars, paramVars>>

\* load_parametrisation(rr_model, ...): sets the model's parameters, BW too
LoadParametrisation ==
  /\ dpc = "parametrise"
  /\ BW' \in BWValues
  /\ dpc' = "add_event"
  /\ UNCHANGED <<days_of_exposure, num_days, points, target, event, sample,
                 AGut, triggered, lastDose, pipeVars, paramVars>>

\* Mutant of AddEvent: the event is added with useValuesFromTriggerTime set.
AddEventFromTriggerTime ==
  /\ dpc = "add_event"
  /\ event' = [id |-> "oral_daily_exposure",
               useValuesFromTriggerTime |-> TRUE,
               bound |-> days_of_exposure,
               delay |-> 0,
               assignments |-> << >>]
  /\ dpc' = "add_assignment"
  /\ UNCHANGED <<days_of_exposure, num_days, points, target, sample, BW, AGut,
                 triggered, lastDose, pipeVars, paramVars>>

\* rr_model.addEvent(eid, False, trigger, False): the second argument is
\* useValuesFromTriggerTime, the fourth forceRegenerate. The event has no delay.
AddEvent ==
  /\ dpc = "add_event"
  /\ event' = [id |-> "oral_daily_exposure",
               useValuesFromTriggerTime |-> FALSE,
               bound |-> days_of_exposure,
               delay |-> 0,
               assignments |-> << >>]
  /\ dpc' = "add_assignment"
  /\ UNCHANGED <<days_of_exposure, num_days, points, target, sample, BW, AGut,
                 triggered, lastDose, pipeVars, paramVars>>

\* rr_model.addEventAssignment(eid, input_id, "AGut + 1 * BW", False)
AddEventAssignment ==
  /\ dpc = "add_assignment"
  /\ event' = [event EXCEPT
                 !.assignments = <<[variable |-> "AGut", dose |-> daily_intake,
                                    covariate |-> "BW"]>>]
  /\ dpc' = "regenerate"
  /\ UNCHANGED <<days_of_exposure, num_days, points, target, sample, BW, AGut,
                 triggered, lastDose, pipeVars, paramVars>>

\* rr_model.regenerateModel(True, True); then simulate(0, num_days,
\* evaluation_frequency * num_days + 1, plot_params) begins
RegenerateModel ==
  /\ dpc = "regenerate"
  /\ points' = evaluation_frequency * num_days + 1
  /\ sample' = 0
  /\ dpc' = "simulate"
  /\ UNCHANGED <<days_of_exposure, num_days, target, event, BW, AGut,
                 triggered, lastDose, pipeVars, paramVars>>

\* One sample time of the simulation. Where the trigger predicate holds the
\* event fires; having no delay, its assignment is executed at that same time.
\* The covariate read is the value at trigger time if the event's flag is set
\* and the value at execution time otherwise. Between samples the covariate
\* may change. AGut counts the mass the event has injected.
SimulateStep ==
  /\ dpc = "simulate" /\ sample < points
  /\ LET t == SampleTime(sample)
         fires == TriggerPredicate(t, event.bound)
         bwAtTrigger == BW
         bwAtExecution == BW
         covariate == IF event.useValuesFromTriggerTime
                      THEN bwAtTrigger ELSE bwAtExecution
         added == event.assignments[1].dose * covariate
     IN IF fires
        THEN /\ triggered' = triggered \cup {t}
             /\ AGut' = IF target.constant \/ target.boundary
                        THEN AGut ELSE AGut + added
             /\ lastDose' = [sample |-> sample, added |-> added,
                             bwAtTrigger |-> bwAtTrigger]
        ELSE UNCHANGED <<triggered, AGut, lastDose>>
  /\ sample' = sample + 1
  /\ BW' \in BWValues
  /\ UNCHANGED <<dpc, days_of_exposure, num_days, points, target, event,
                 pipeVars, paramVars>>

\* simulate returns: the results are saved and the test ends
SaveResults ==
  /\ dpc = "simulate" /\ sample = points
  /\ dpc' = "done"
  /\ UNCHANGED <<days_of_exposure, num_days, points, target, event, sample,
                 BW, AGut, triggered, lastDose, pipeVars, paramVars>>

NextDose ==
  \/ Scenario \/ LoadModel \/ LoadParametrisation \/ AddEvent
  \/ AddEventAssignment \/ RegenerateModel \/ SimulateStep \/ SaveResults

-----------------------------------------------------------------------------
(* Specifications: each program runs on its own; the variables of the other *)
(* two stay at their initial values.                                        *)

PipelineIdle ==
  /\ run = 1 /\ listing = << >> /\ InitMemory
  /\ sbml = << >> /\ csv = << >> /\ annlog = << >> /\ vallog = << >>

ParamIdle ==
  /\ tpc = "idle" /\ params = << >> /\ files = << >> /\ fidx = 1
  /\ model_params = << >> /\ df = << >> /\ instance_ids = << >>
  /\ iidx = 1 /\ ridx = 1 /\ examined = << >> /\ reported = {}

DoseIdle ==
  /\ dpc = "idle" /\ days_of_exposure = 0 /\ num_days = 0 /\ points = 0
  /\ target = << >> /\ event = NoEvent /\ sample = 0 /\ BW = 0 /\ AGut = 0
  /\ triggered = {} /\ lastDose = NoDose

InitPipeline == InitPipelineVars /\ ParamIdle /\ DoseIdle
InitParam == PipelineIdle /\ InitParamVars /\ DoseIdle
InitDose == PipelineIdle /\ ParamIdle /\ InitDoseVars

SpecPipeline == InitPipeline /\ [][NextPipeline]_vars
SpecParam == InitParam /\ [][NextParam]_vars
SpecDose == InitDose /\ [][NextDose]_vars

-----------------------------------------------------------------------------
(* Properties of scripts/compile_model.py, checked under SpecPipeline *)

Terminated == pc \in {"done", "crashed"}

HasEvent(op, m) == \E i \in 1..Len(events) : events[i] = Ev(op, m)

\* The place of model m's source file in the listing.
Position(m) ==
  CHOOSE i \in 1..Len(listing) : listing[i] = [stem |-> m, ext |-> "ant"]

\* C1, as claimed: when the annotator raises for a model, the failure is in
\* that model's annotation log and, by the end of the run, the validator has
\* been called for the same model.
C1_Claim ==
  \A m \in Models :
    (Terminated /\ <<m, "annotate">> \in raised) =>
      (annlog[m] = "error" /\ HasEvent("validate", m))

\* C1, as amended: when the annotator raises for a model, the exception ends
\* the run there: the annotated document is not written (the file on disk is
\* the export of this run), the validator is not called for that model, and
\* the validation log of that model has not been opened.
C1_AnnotatorFailureEndsRun ==
  \A m \in Models :
    <<m, "annotate">> \in raised =>
      /\ pc = "crashed"
      /\ ~HasEvent("write", m)
      /\ ~HasEvent("validate", m)
      /\ sbml[m] = [kind |-> "exported", run |-> run]
      /\ <<m, "validation">> \notin openHandles

\* C1 witness: the annotator has raised for a model.
C1_Witness ==
  \E m \in Models : <<m, "annotate">> \in raised /\ HasEvent("annotate", m)

\* C2, as claimed: when a stage of one model fails, every later model of the
\* listing has been compiled, annotated and validated by the end of the run.
C2_Claim ==
  \A f \in raised : \A m \in Models :
    (Terminated /\ Position(m) > Position(f[1])) =>
      /\ HasEvent("loada", m) /\ HasEvent("export", m)
      /\ HasEvent("annotate", m) /\ HasEvent("validated", m)

\* C2, as amended: a failure in any stage of one model ends the whole run: no
\* call is made for any later model of the listing, and none of the later
\* models' documents is written in that run.
C2_FailureEndsBatch ==
  \A f \in raised :
    /\ pc = "crashed"
    /\ \A m \in Models :
         Position(m) > Position(f[1]) =>
           /\ \A i \in 1..Len(events) : events[i].model # m
           /\ sbml[m].run # run

\* C2 witness: a stage of a model has failed and a later model is in the batch.
C2_Witness ==
  \E f \in raised : \E m \in Models :
    Position(m) > Position(f[1]) /\ f[2] \in {"compile", "validate"}

\* C3: once the annotation table of a model exists no step of the pipeline
\* changes it, in any run; and every run that compiles the model calls the
\* annotator for it, whether the table existed or not, and writes the
\* annotated document in that run whenever the annotator returns.
C3_TableKeptDocumentRewritten ==
  /\ [][\A m \in Models : csv[m].kind # "none" => csv'[m] = csv[m]]_vars
  /\ [](Terminated =>
          \A m \in Models :
            HasEvent("read", m) =>
              /\ HasEvent("annotate", m)
              /\ <<m, "annotate">> \notin raised =>
                   /\ HasEvent("write", m)
                   /\ sbml[m] = [kind |-> "annotated", run |-> run])

\* C3 witness: a second run has ended; a table generated by the first run is
\* still the first run's, and the document is the second run's annotated one.
C3_Witness ==
  /\ run = 2 /\ pc = "done"
  /\ \E m \in Models :
       /\ csv[m] = [kind |-> "template", run |-> 1]
       /\ HasEvent("annotate", m)
       /\ sbml[m] = [kind |-> "annotated", run |-> 2]

\* C8: for every model the calls are made in the order compile (loada,
\* export, read back), annotate, write, validate: the annotator is called
\* only after the model's document was exported and read back, the validator
\* only after the annotated document was written after the annotator's call,
\* and a call for another model comes only after the validator has returned
\* for the model before it.
C8_StageOrder ==
  \A i \in 1..Len(events) :
    LET m == events[i].model
        Earlier(op, k) == \E j \in 1..(k - 1) : events[j] = Ev(op, m)
    IN /\ events[i].op = "annotate" =>
            \E k \in 1..(i - 1) : events[k] = Ev("read", m) /\ Earlier("export", k)
       /\ events[i].op = "validate" =>
            \E k \in 1..(i - 1) : events[k] = Ev("write", m) /\ Earlier("annotate", k)
       /\ \A j \in (i + 1)..Len(events) :
            events[j].model # m =>
              \E k \in i..(j - 1) : events[k] = Ev("validated", m)

\* C8 witness: a run has ended with every model validated.
C8_Witness ==
  pc = "done" /\ \A m \in Models : HasEvent("validated", m)

\* C9, as claimed: at most one stage log file is open at any time.
C9_Claim == Cardinality(openHandles) <= 1

-----------------------------------------------------------------------------
(* Properties of test_parametrisation, checked under SpecParam *)

TestEnded == tpc \in {"passed", "failed"}

\* The rows of all the parameter files, as read.
AllRows == UNION {{ReadCsv(f)[i] : i \in 1..Len(files[f])} : f \in FileIds}

\* The rows whose trimmed name is no parameter of the model at all.
UndeclaredRows == {r \in AllRows : Strip(r.Parameter) \notin ParamIds}

\* C4, as claimed, for a file that holds exactly one row of instance A naming
\* a declared constant parameter and one row of instance B naming an
\* undeclared one, in either order, the other file being empty: when the test
\* has ended, what it reported is B's row and nothing else.
C4_Claim ==
  \A f \in FileIds : \A a, b \in {1, 2} :
    ( /\ TestEnded
      /\ \A g \in FileIds \ {f} : files[g] = << >>
      /\ Len(files[f]) = 2 /\ a # b
      /\ files[f][a].idModelInstance = "A"
      /\ Strip(files[f][a].Parameter) \in ParamIds
      /\ params[Strip(files[f][a].Parameter)] = "true"
      /\ files[f][b].idModelInstance = "B"
      /\ Strip(files[f][b].Parameter) \notin ParamIds )
    => reported = {ReadCsv(f)[b]}

\* C5, as claimed: when several rows of the files name undeclared parameters,
\* every one of them has been reported when the test has ended.
C5_Claim ==
  (TestEnded /\ Cardinality(UndeclaredRows) >= 2) => UndeclaredRows \subseteq reported

\* C5, as amended: the check stops at the first offending row it examines. At
\* most one row is ever reported; it is the last row examined, the test has
\* failed there, and every row examined before it passed.
C5_StopsAtFirstOffendingRow ==
  /\ Cardinality(reported) <= 1
  /\ reported # {} =>
       /\ tpc = "failed"
       /\ reported = {examined[Len(examined)]}
  /\ \A i \in 1..Len(examined) :
       (i < Len(examined) \/ reported = {}) =>
         InList(Strip(examined[i].Parameter), model_params)

\* C5 witness: the test has failed on one row while another offending row of
\* the files has not been examined.
C5_Witness ==
  /\ tpc = "failed"
  /\ \E r \in UndeclaredRows :
       r \notin reported /\ \A i \in 1..Len(examined) : examined[i] # r

\* C10, as claimed: a model parameter whose constant attribute is present but
\* false is not in the vocabulary, and an examined row that names it (after
\* trimming) is reported.
C10_Claim ==
  \A id \in ParamIds :
    params[id] = "false" =>
      /\ ~InList(id, model_params)
      /\ \A i \in 1..Len(examined) :
           Strip(examined[i].Parameter) = id => examined[i] \in reported

-----------------------------------------------------------------------------
(* Properties of test_daily_oral_bolus, checked under SpecDose *)

\* The sample time of whole day d.
Day(d) == SampleTime(d * evaluation_frequency)

\* C6: when the simulation has ended it has covered the sample times of
\* D + floor(D/10) days at 24 to the day, and the trigger predicate held at
\* exactly the D sample times 0, 1, ..., D-1: at none in the washout window
\* [D, D + floor(D/10)], and at none at all when D = 0.
C6_TriggerTimes ==
  dpc = "done" =>
    /\ num_days = days_of_exposure + (days_of_exposure \div 10)
    /\ sample = evaluation_frequency * num_days + 1
    /\ triggered = {Day(d) : d \in 0..(days_of_exposure - 1)}
    /\ Cardinality(triggered) = days_of_exposure

\* C6 witness: a simulation with a washout window has ended.
C6_Witness ==
  /\ dpc = "done"
  /\ days_of_exposure >= 10
  /\ num_days > days_of_exposure
  /\ Day(days_of_exposure - 1) \in triggered

\* C7, as claimed: the dosing event carries the "use values from trigger
\* time" flag set.
C7_Claim ==
  event # NoEvent => event.useValuesFromTriggerTime

\* C7, as amended: the dosing event is installed with the "use values from
\* trigger time" flag cleared and without a delay, so each dose is evaluated
\* at the time the trigger fires: the amount added is dose * covariate with
\* the covariate's value at that time.
C7_FlagClearedNoDelay ==
  event # NoEvent =>
    /\ ~event.useValuesFromTriggerTime
    /\ event.delay = 0
    /\ lastDose # NoDose =>
         lastDose.added = daily_intake * lastDose.bwAtTrigger

\* C7 witness: the event has fired on a day after the first.
C7_Witness ==
  event # NoEvent /\ lastDose # NoDose /\ lastDose.sample > 0

====
